---- MODULE Spec2Model ----
\* A model of home-config (src/src/lib.rs): the HomeConfig handle, the path it
\* is built with, and its file operations, over a small tree-shaped file system.
EXTENDS Naturals, Sequences, FiniteSets, TLC

\* ---------------------------------------------------------------- bounds
\* How many handles the program constructs.
MaxHandles == 2
\* After a write fault, at most this many leading bytes of the data are on disk.
MaxPartial == 0

\* ---------------------------------------------------------------- paths
\* A path is the sequence of its components (std::path::Components); an
\* absolute path starts with the root component "/".
RootDir == "/"

\* Path::is_absolute
IsAbsolute(p) == Len(p) > 0 /\ p[1] = RootDir

\* PathBuf::join (push): an absolute argument replaces the whole path.
Join(p, q) == IF IsAbsolute(q) THEN q ELSE p \o q

\* Path::parent: None (here <<>>) for the root and for the empty path.
Parent(p) == IF Len(p) <= 1 THEN <<>> ELSE SubSeq(p, 1, Len(p) - 1)

Prefix(p, i) == SubSeq(p, 1, i)

\* What dirs::home_dir() can report: None, or the user's home directory.
NoHome == [some |-> FALSE, path |-> <<>>]
Resolved == {NoHome, [some |-> TRUE, path |-> <<RootDir, "h">>]}

\* The application names and the relative file names the callers pass.
AppNames == {<<"x">>, <<RootDir, "e">>}
FileNames == {<<"x">>}
RelPaths == {<<".config", "x">>}

\* Every path a handle can hold, and every prefix of one: the file system's nodes.
HandlePaths ==
    {Join(Join(Join(r.path, <<".config">>), a), f) :
        r \in Resolved \ {NoHome}, a \in AppNames, f \in FileNames}
    \cup {Join(r.path, p) : r \in Resolved \ {NoHome}, p \in RelPaths}
AllPaths == UNION {{Prefix(p, i) : i \in 1..Len(p)} : p \in HandlePaths}

\* ---------------------------------------------------------------- results
\* Result<T, E>: val is a sequence (bytes, a decoded value, or <<>> for unit);
\* variant is the error enum's variant ("Io", "Serde"; "Io" for a bare
\* io::Error; "Panic" for a panic), kind the io::ErrorKind or the codec's reason.
Ok(v) == [ok |-> TRUE, val |-> v, variant |-> "-", kind |-> "-"]
Err(variant, kind) == [ok |-> FALSE, val |-> <<>>, variant |-> variant, kind |-> kind]
IoErr(kind) == Err("Io", kind)
Panic == Err("Panic", "get home dir")

\* ---------------------------------------------------------------- file system
Absent == [kind |-> "absent", data |-> <<>>]
Dir == [kind |-> "dir", data |-> <<>>]
RegFile(d) == [kind |-> "file", data |-> d]

\* An injected I/O fault: where the environment fails the call ("none": not at
\* all), and how many bytes a failed write had already put on disk.
NoFault == [at |-> "none", k |-> 0]
Faults ==
    {NoFault}
    \cup {[at |-> a, k |-> 0] : a \in {"mkdir", "open", "read", "remove"}}
    \cup {[at |-> "write", k |-> k] : k \in 0..MaxPartial}

\* Path resolution by the operating system, as every std::fs call does it: the
\* error of the first ancestor that cannot be walked, or "ok".
Walk(f, p) ==
    LET bad == {i \in 1..(Len(p) - 1) : f[Prefix(p, i)].kind # "dir"}
    IN  IF bad = {} THEN "ok"
        ELSE LET i == CHOOSE i \in bad : \A j \in bad : i <= j
             IN  IF f[Prefix(p, i)].kind = "absent" THEN "NotFound" ELSE "NotADirectory"

Resolve(f, p) ==
    IF Walk(f, p) # "ok" THEN Walk(f, p)
    ELSE IF f[p].kind = "absent" THEN "NotFound" ELSE "Found"

\* Path::exists: the metadata call succeeds.
Exists(f, p) == Resolve(f, p) = "Found"

\* Path::is_dir
IsDir(f, p) == Resolve(f, p) = "Found" /\ f[p].kind = "dir"

\* mkdir(2)
Mkdir(f, p) ==
    IF Walk(f, p) # "ok" THEN [res |-> IoErr(Walk(f, p)), fs |-> f]
    ELSE IF f[p].kind # "absent" THEN [res |-> IoErr("AlreadyExists"), fs |-> f]
    ELSE [res |-> Ok(<<>>), fs |-> [f EXCEPT ![p] = Dir]]

\* fs::create_dir in place of create_dir_all: one level only.
CreateDirOnly(f, p) ==
    IF p = <<>> THEN [res |-> Ok(<<>>), fs |-> f] ELSE Mkdir(f, p)

\* fs::create_dir_all: mkdir; on NotFound create the parent first and retry;
\* any other error is success when the path is a directory already.
RECURSIVE CreateDirAll(_, _)
CreateDirAll(f, p) ==
    IF p = <<>> THEN [res |-> Ok(<<>>), fs |-> f]
    ELSE LET m == Mkdir(f, p)
         IN  IF m.res.ok THEN m
             ELSE IF m.res.kind # "NotFound"
             THEN IF IsDir(f, p) THEN [res |-> Ok(<<>>), fs |-> f] ELSE m
             ELSE IF Len(p) <= 1
             THEN [res |-> IoErr("Other"), fs |-> f]
             ELSE LET up == CreateDirAll(f, Parent(p))
                  IN  IF ~up.res.ok THEN up
                      ELSE LET again == Mkdir(up.fs, p)
                           IN  IF again.res.ok \/ ~IsDir(up.fs, p) THEN again
                               ELSE [res |-> Ok(<<>>), fs |-> up.fs]

\* A write that opens the file without truncating it: the tail of a longer old
\* content stays.
WriteNoTruncate(f, p, d, fault) ==
    IF fault.at = "open" THEN [res |-> IoErr("PermissionDenied"), fs |-> f]
    ELSE IF Walk(f, p) # "ok" THEN [res |-> IoErr(Walk(f, p)), fs |-> f]
    ELSE IF f[p].kind = "dir" THEN [res |-> IoErr("IsADirectory"), fs |-> f]
    ELSE IF fault.at = "write" /\ fault.k < Len(d)
    THEN [res |-> IoErr("WriteFault"), fs |-> [f EXCEPT ![p] = RegFile(Prefix(d, fault.k))]]
    ELSE [res |-> Ok(<<>>),
          fs |-> [f EXCEPT ![p] =
                    RegFile(d \o SubSeq(f[p].data, Len(d) + 1, Len(f[p].data)))]]

\* fs::write: File::create (create or truncate), then write_all. A fault at
\* the open changes nothing; a fault in write_all leaves a prefix of the data.
Write(f, p, d, fault) ==
    IF fault.at = "open" THEN [res |-> IoErr("PermissionDenied"), fs |-> f]
    ELSE IF Walk(f, p) # "ok" THEN [res |-> IoErr(Walk(f, p)), fs |-> f]
    ELSE IF f[p].kind = "dir" THEN [res |-> IoErr("IsADirectory"), fs |-> f]
    ELSE IF fault.at = "write" /\ fault.k < Len(d)
    THEN [res |-> IoErr("WriteFault"), fs |-> [f EXCEPT ![p] = RegFile(Prefix(d, fault.k))]]
    ELSE [res |-> Ok(<<>>), fs |-> [f EXCEPT ![p] = RegFile(d)]]

\* fs::remove_file (unlink), with Linux's error for a directory.
RemoveFile(f, p, fault) ==
    IF fault.at = "remove" THEN [res |-> IoErr("PermissionDenied"), fs |-> f]
    ELSE IF Resolve(f, p) # "Found" THEN [res |-> IoErr(Resolve(f, p)), fs |-> f]
    ELSE IF f[p].kind = "dir" THEN [res |-> IoErr("IsADirectory"), fs |-> f]
    ELSE [res |-> Ok(<<>>), fs |-> [f EXCEPT ![p] = Absent]]

\* File::open for reading: "ok" or the error kind. A directory opens (as on
\* Linux), and the read of it fails.
Open(f, p, fault) ==
    IF fault.at = "open" THEN "PermissionDenied"
    ELSE IF Resolve(f, p) # "Found" THEN Resolve(f, p)
    ELSE "ok"

\* Read::read_to_end on a file that Open opened.
ReadToEnd(f, p, fault) ==
    IF f[p].kind = "dir" THEN IoErr("IsADirectory")
    ELSE IF fault.at = "read" THEN IoErr("ReadFault")
    ELSE Ok(f[p].data)

\* str::from_utf8, on the bytes the model uses: a byte above 127 stands alone
\* and so is never part of a valid sequence.
ValidUtf8(d) == \A i \in 1..Len(d) : d[i] < 128

\* ---------------------------------------------------------------- codecs
\* The serde codecs (serde_json, serde_yaml, toml) on a small set of values.
\* A value is <<shape, n>>: shape 1 a record (every format writes it), shape 0
\* a bare scalar (toml refuses a top level that is no table), shape 9 a value
\* whose Serialize implementation reports an error.
Values == {<<1, 1>>, <<1, 2>>, <<0, 1>>, <<9, 9>>}

\* The first byte of a document of each format: '{', '-', '['.
Tag(F) == CASE F = "json" -> 123 [] F = "yaml" -> 45 [] F = "toml" -> 91

Encodable(F, v) == v[1] # 9 /\ (F = "toml" => v[1] = 1)

\* to_vec_pretty / to_string / to_string_pretty
Encode(F, v) ==
    IF Encodable(F, v) THEN Ok(<<Tag(F)>> \o v) ELSE Err("Serde", "encode")

\* from_slice / the decoding part of from_reader
Decode(F, d) ==
    IF /\ Len(d) = 3
       /\ d[1] = Tag(F)
       /\ Tail(d) \in Values
       /\ Encodable(F, Tail(d))
    THEN Ok(Tail(d))
    ELSE Err("Serde", "decode")

\* The byte strings callers pass to save: a text, longer bytes that are no
\* UTF-8, and a text longer than any document.
SaveData == {<<49>>, <<49, 255>>, <<49, 50, 51, 52>>}

\* ---------------------------------------------------------------- HomeConfig
\* A home_dir that falls back to the empty path (unwrap_or_default).
HomeDirOrEmpty(r) == Ok(r.path)

\* home_dir: dirs::home_dir().expect("get home dir")
HomeDir(r) == IF r.some THEN Ok(r.path) ELSE Panic

\* A with_config_dir that leaves out the ".config" directory.
WithConfigDirNoDotConfig(r, app_name, file_name) ==
    IF ~HomeDir(r).ok THEN HomeDir(r)
    ELSE Ok(Join(Join(HomeDir(r).val, app_name), file_name))

\* HomeConfig::with_config_dir
WithConfigDir(r, app_name, file_name) ==
    IF ~HomeDir(r).ok THEN HomeDir(r)
    ELSE Ok(Join(Join(Join(HomeDir(r).val, <<".config">>), app_name), file_name))

\* HomeConfig::with_file
WithFile(r, rel) ==
    IF ~HomeDir(r).ok THEN HomeDir(r) ELSE Ok(Join(HomeDir(r).val, rel))

\* HomeConfig::read_to_string (fs::read_to_string)
ReadToString(f, p, fault) ==
    IF Open(f, p, fault) # "ok" THEN IoErr(Open(f, p, fault))
    ELSE LET r == ReadToEnd(f, p, fault)
         IN  IF r.ok /\ ~ValidUtf8(r.val) THEN IoErr("InvalidData") ELSE r

\* A read_to_vec that takes a file it cannot open for an empty one.
ReadToVecOrEmpty(f, p, fault) ==
    IF Open(f, p, fault) # "ok" THEN Ok(<<>>) ELSE ReadToEnd(f, p, fault)

\* HomeConfig::read_to_vec
ReadToVec(f, p, fault) ==
    IF Open(f, p, fault) # "ok" THEN IoErr(Open(f, p, fault))
    ELSE ReadToEnd(f, p, fault)

\* from_reader(f).map_err(Serde): the codec reads the open file itself, so
\* a failed read comes back as the codec's error.
FromReader(F, f, p, fault) ==
    LET r == ReadToEnd(f, p, fault)
    IN  IF r.ok THEN Decode(F, r.val) ELSE Err("Serde", r.kind)

\* HomeConfig::json
Json(f, p, fault) ==
    IF Open(f, p, fault) # "ok" THEN Err("Io", Open(f, p, fault))
    ELSE FromReader("json", f, p, fault)

\* HomeConfig::yaml
Yaml(f, p, fault) ==
    IF Open(f, p, fault) # "ok" THEN Err("Io", Open(f, p, fault))
    ELSE FromReader("yaml", f, p, fault)

\* HomeConfig::toml
Toml(f, p, fault) ==
    LET bytes == ReadToVec(f, p, fault)
    IN  IF ~bytes.ok THEN Err("Io", bytes.kind) ELSE Decode("toml", bytes.val)

Parse(F, f, p, fault) ==
    CASE F = "json" -> Json(f, p, fault)
      [] F = "yaml" -> Yaml(f, p, fault)
      [] F = "toml" -> Toml(f, p, fault)

\* HomeConfig::create_parent_dir
CreateParentDir(f, p, fault) ==
    IF ~Exists(f, p) /\ Parent(p) # <<>>
    THEN IF fault.at = "mkdir" THEN [res |-> IoErr("PermissionDenied"), fs |-> f]
         ELSE CreateDirAll(f, Parent(p))
    ELSE [res |-> Ok(<<>>), fs |-> f]

\* HomeConfig::save
Save(f, p, data, fault) ==
    LET made == CreateParentDir(f, p, fault)
    IN  IF ~made.res.ok THEN made ELSE Write(made.fs, p, data, fault)

\* A save_* that creates the parent directories before it encodes.
SaveEncodedDirsFirst(F, f, p, v, fault) ==
    LET made == CreateParentDir(f, p, fault)
        bytes == Encode(F, v)
    IN  IF ~made.res.ok THEN made
        ELSE IF ~bytes.ok THEN [res |-> bytes, fs |-> made.fs]
        ELSE Write(made.fs, p, bytes.val, fault)

\* HomeConfig::save_json / save_yaml / save_toml share one shape: encode,
\* create_parent_dir, fs::write, each error mapped to its variant.
SaveEncoded(F, f, p, v, fault) ==
    LET bytes == Encode(F, v)
    IN  IF ~bytes.ok THEN [res |-> bytes, fs |-> f]
        ELSE Save(f, p, bytes.val, fault)

\* HomeConfig::save_json
SaveJson(f, p, v, fault) == SaveEncoded("json", f, p, v, fault)

\* A save_yaml pasted from save_json with the codec left as it was.
SaveYamlAsJson(f, p, v, fault) == SaveEncoded("json", f, p, v, fault)

\* HomeConfig::save_yaml
SaveYaml(f, p, v, fault) == SaveEncoded("yaml", f, p, v, fault)

\* HomeConfig::save_toml
SaveToml(f, p, v, fault) == SaveEncoded("toml", f, p, v, fault)

\* A delete that reports every failure of the removal, NotFound too.
DeleteStrict(f, p, fault) == RemoveFile(f, p, fault)

\* A delete that reports no failure of the removal at all.
DeleteQuiet(f, p, fault) ==
    [res |-> Ok(<<>>), fs |-> RemoveFile(f, p, fault).fs]

\* HomeConfig::delete
Delete(f, p, fault) ==
    LET r == RemoveFile(f, p, fault)
    IN  IF r.res.ok THEN r
        ELSE IF r.res.kind = "NotFound" THEN [res |-> Ok(<<>>), fs |-> r.fs]
        ELSE r

\* ---------------------------------------------------------------- state
\* handles: the HomeConfig values constructed so far, in order.
\* built:   for each handle, the arguments and the home directory it was built
\*          from (a history variable).
\* fs:      the file system, a node for every path of AllPaths.
\* last:    the call that has just returned: operation, handle, argument (for
\*          a constructor the home directory the resolver reported, <<>> when
\*          it reported none), injected fault, what it returned, and the file
\*          system and the handles as it found them; Idle between calls.
VARIABLES handles, built, fs, last

vars == <<handles, built, fs, last>>

HomeConfig(p) == [path |-> p]

Call(op, h, arg, fault, res) ==
    [op |-> op, h |-> h, arg |-> arg, fault |-> fault, res |-> res, pre |-> fs,
     had |-> handles]

Idle == [op |-> "idle", h |-> 0, arg |-> <<>>, fault |-> NoFault, res |-> Ok(<<>>),
         pre |-> <<>>, had |-> <<>>]

Init ==
    /\ handles = <<>>
    /\ built = <<>>
    /\ fs = [p \in AllPaths |-> IF p \in {<<RootDir>>, <<RootDir, "h">>} THEN Dir ELSE Absent]
    /\ last = Idle

\* A fault is injected only where it changes what the call does.
Effective(fault, faulty, clean) == fault = NoFault \/ faulty # clean

\* A constructor returns a handle, or panics and returns nothing.
Construct(op, r, app_name, file_name, res) ==
    /\ Len(handles) < MaxHandles
    /\ IF res.ok
       THEN /\ handles' = Append(handles, HomeConfig(res.val))
            /\ built' = Append(built, [op |-> op, home |-> r, app_name |-> app_name,
                                       file_name |-> file_name])
            /\ last' = Call(op, Len(handles) + 1, r.path, NoFault, res)
       ELSE /\ UNCHANGED <<handles, built>>
            /\ last' = Call(op, 0, r.path, NoFault, res)
    /\ UNCHANGED fs

NewWithConfigDir ==
    /\ last = Idle
    /\ \E r \in Resolved, app_name \in AppNames, file_name \in FileNames :
            Construct("with_config_dir", r, app_name, file_name,
                      WithConfigDir(r, app_name, file_name))

NewWithFile ==
    /\ last = Idle
    /\ \E r \in Resolved, rel \in RelPaths :
            Construct("with_file", r, <<>>, rel, WithFile(r, rel))

\* HomeConfig::path
CallPath ==
    /\ last = Idle
    /\ \E h \in 1..Len(handles) :
            /\ last' = Call("path", h, <<>>, NoFault, Ok(handles[h].path))
            /\ UNCHANGED <<handles, built, fs>>

\* A call that only reads.
Reading(op, h, fault, faulty, clean) ==
    /\ Effective(fault, faulty, clean)
    /\ last' = Call(op, h, <<>>, fault, faulty)
    /\ UNCHANGED <<handles, built, fs>>

CallReadToString ==
    /\ last = Idle
    /\ \E h \in 1..Len(handles), fault \in Faults :
            Reading("read_to_string", h, fault,
                    ReadToString(fs, handles[h].path, fault),
                    ReadToString(fs, handles[h].path, NoFault))

CallReadToVec ==
    /\ last = Idle
    /\ \E h \in 1..Len(handles), fault \in Faults :
            Reading("read_to_vec", h, fault,
                    ReadToVec(fs, handles[h].path, fault),
                    ReadToVec(fs, handles[h].path, NoFault))

CallJson ==
    /\ last = Idle
    /\ \E h \in 1..Len(handles), fault \in Faults :
            Reading("json", h, fault,
                    Json(fs, handles[h].path, fault), Json(fs, handles[h].path, NoFault))

CallYaml ==
    /\ last = Idle
    /\ \E h \in 1..Len(handles), fault \in Faults :
            Reading("yaml", h, fault,
                    Yaml(fs, handles[h].path, fault), Yaml(fs, handles[h].path, NoFault))

CallToml ==
    /\ last = Idle
    /\ \E h \in 1..Len(handles), fault \in Faults :
            Reading("toml", h, fault,
                    Toml(fs, handles[h].path, fault), Toml(fs, handles[h].path, NoFault))

\* A call that writes: a save or a delete on the handle's path.
Writing(op, h, arg, fault, faulty, clean) ==
    /\ Effective(fault, faulty, clean)
    /\ fs' = faulty.fs
    /\ last' = Call(op, h, arg, fault, faulty.res)
    /\ UNCHANGED <<handles, built>>

CallSave ==
    /\ last = Idle
    /\ \E h \in 1..Len(handles), data \in SaveData, fault \in Faults :
            Writing("save", h, data, fault,
                    Save(fs, handles[h].path, data, fault),
                    Save(fs, handles[h].path, data, NoFault))

CallSaveJson ==
    /\ last = Idle
    /\ \E h \in 1..Len(handles), v \in Values, fault \in Faults :
            Writing("save_json", h, v, fault,
                    SaveJson(fs, handles[h].path, v, fault),
                    SaveJson(fs, handles[h].path, v, NoFault))

CallSaveYaml ==
    /\ last = Idle
    /\ \E h \in 1..Len(handles), v \in Values, fault \in Faults :
            Writing("save_yaml", h, v, fault,
                    SaveYaml(fs, handles[h].path, v, fault),
                    SaveYaml(fs, handles[h].path, v, NoFault))

CallSaveToml ==
    /\ last = Idle
    /\ \E h \in 1..Len(handles), v \in Values, fault \in Faults :
            Writing("save_toml", h, v, fault,
                    SaveToml(fs, handles[h].path, v, fault),
                    SaveToml(fs, handles[h].path, v, NoFault))

CallDelete ==
    /\ last = Idle
    /\ \E h \in 1..Len(handles), fault \in Faults :
            Writing("delete", h, <<>>, fault,
                    Delete(fs, handles[h].path, fault),
                    Delete(fs, handles[h].path, NoFault))

\* The caller has taken the result; the program is between calls again.
Return ==
    /\ last # Idle
    /\ last' = Idle
    /\ UNCHANGED <<handles, built, fs>>

Next ==
    \/ NewWithConfigDir
    \/ NewWithFile
    \/ CallPath
    \/ CallReadToString
    \/ CallReadToVec
    \/ CallJson
    \/ CallYaml
    \/ CallToml
    \/ CallSave
    \/ CallSaveJson
    \/ CallSaveYaml
    \/ CallSaveToml
    \/ CallDelete
    \/ Return

Spec == Init /\ [][Next]_vars

\* ---------------------------------------------------------------- claims
\* The path of the handle the last call was made on.
LastPath == handles[last.h].path

Constructors == {"with_config_dir", "with_file"}
Reads == {"read_to_string", "read_to_vec"}
Parses == {"json", "yaml", "toml"}
Saves == {"save", "save_json", "save_yaml", "save_toml"}

\* home / ".config" / app_name / file_name and home / relative_path, component
\* after component.
Under(b) ==
    IF b.op = "with_config_dir"
    THEN b.home.path \o <<".config">> \o b.app_name \o b.file_name
    ELSE b.home.path \o b.file_name

\* The same, for an application name that may itself be absolute.
Located(b) ==
    IF b.op = "with_config_dir" /\ IsAbsolute(b.app_name)
    THEN b.app_name \o b.file_name
    ELSE Under(b)

\* C1 as stated: for all application names and relative file names the path of
\* a handle is absolute and is home/.config/app_name/file_name
\* (with_config_dir) or home/relative_path (with_file).
C1_Original ==
    \A i \in 1..Len(handles) :
        IsAbsolute(handles[i].path) /\ handles[i].path = Under(built[i])

\* C1 amended: the path of a handle is absolute; it is
\* home/.config/app_name/file_name for a relative application name and
\* app_name/file_name for an absolute one, and home/relative_path for
\* with_file; path() returns exactly it, and no call other than a constructor
\* changes the handles.
C1_PathBuilt ==
    /\ \A i \in 1..Len(handles) :
        /\ IsAbsolute(handles[i].path)
        /\ handles[i].path = Located(built[i])
        /\ ~IsAbsolute(built[i].app_name) => handles[i].path = Under(built[i])
    /\ last.op = "path" => last.res = Ok(Located(built[last.h]))
    /\ last.op \notin Constructors \cup {"idle"} => handles = last.had

\* C1's case: path() is called on a handle built by with_config_dir from a
\* relative application name, after a save through it has written the file.
C1_Witness ==
    /\ last.op = "path"
    /\ built[last.h].op = "with_config_dir"
    /\ ~IsAbsolute(built[last.h].app_name)
    /\ fs[LastPath].kind = "file"

\* C2: when the home-directory resolver reports failure a constructor panics
\* and returns no handle; every handle's path is absolute, not empty, and built
\* from a home directory the resolver did report.
C2_NoHandleWithoutHome ==
    /\ last.op \in Constructors /\ last.arg = <<>> =>
        last.res = Panic /\ last.h = 0 /\ handles = last.had
    /\ \A i \in 1..Len(handles) :
        /\ built[i].home \in Resolved \ {NoHome}
        /\ handles[i].path # <<>>
        /\ IsAbsolute(handles[i].path)
        /\ handles[i].path = Located(built[i])

\* C2's case: a constructor was called while the resolver reported failure,
\* in a program that holds a handle from an earlier, successful construction.
C2_Witness ==
    /\ last.op \in Constructors
    /\ last.arg = <<>>
    /\ last.res = Panic
    /\ Len(handles) = 1


\* C3 as stated: once save(b) returns success the file holds exactly b, and a
\* following read_to_string and a following read_to_vec both return b.
C3_Original ==
    last.op = "save" /\ last.res.ok =>
        /\ fs[LastPath] = RegFile(last.arg)
        /\ ReadToVec(fs, LastPath, NoFault) = Ok(last.arg)
        /\ ReadToString(fs, LastPath, NoFault) = Ok(last.arg)

\* C3 amended: once save(b) returns success the file holds exactly b, whatever
\* it held before; a following read_to_vec returns b, and a following
\* read_to_string returns b when b is valid UTF-8 and fails with InvalidData
\* when it is not; a read with no fault returns the whole content of the file;
\* saving b on a file that holds b succeeds and leaves the file system as it was.
C3_SaveThenRead ==
    /\ last.op = "save" /\ last.res.ok =>
        /\ fs[LastPath] = RegFile(last.arg)
        /\ ReadToVec(fs, LastPath, NoFault) = Ok(last.arg)
        /\ ReadToString(fs, LastPath, NoFault) =
              IF ValidUtf8(last.arg) THEN Ok(last.arg) ELSE IoErr("InvalidData")
    /\ last.op = "read_to_vec" /\ last.fault = NoFault /\ last.pre[LastPath].kind = "file" =>
        last.res = Ok(last.pre[LastPath].data)
    /\ last.op = "read_to_string" /\ last.fault = NoFault
            /\ last.pre[LastPath].kind = "file" /\ ValidUtf8(last.pre[LastPath].data) =>
        last.res = Ok(last.pre[LastPath].data)
    /\ last.op = "save" /\ last.fault = NoFault /\ last.pre[LastPath] = RegFile(last.arg) =>
        last.res.ok /\ fs = last.pre

\* C3's case: a save returned success on a file that held a longer content.
C3_Witness ==
    /\ last.op = "save"
    /\ last.res.ok
    /\ last.pre[LastPath].kind = "file"
    /\ Len(last.pre[LastPath].data) > Len(last.arg)

\* The bytes a save call writes: its argument, or the encoding of its argument.
Written ==
    CASE last.op = "save" -> Ok(last.arg)
      [] last.op = "save_json" -> Encode("json", last.arg)
      [] last.op = "save_yaml" -> Encode("yaml", last.arg)
      [] last.op = "save_toml" -> Encode("toml", last.arg)

\* Every proper ancestor of p is a directory or is missing.
ChainFree(f, p) == \A i \in 1..(Len(p) - 1) : f[Prefix(p, i)].kind \in {"dir", "absent"}

\* C4: a save (save, save_json, save_yaml, save_toml) of a value that encodes,
\* with no I/O fault, on a path where the file does not exist and the parent
\* chain is missing at any depth, succeeds; afterwards every ancestor is a
\* directory and the file holds the saved content.
C4_SaveCreatesParents ==
    last.op \in Saves /\ last.fault = NoFault /\ Written.ok
            /\ last.pre[LastPath].kind = "absent" /\ ChainFree(last.pre, LastPath) =>
        /\ last.res.ok
        /\ \A i \in 1..(Len(LastPath) - 1) : fs[Prefix(LastPath, i)].kind = "dir"
        /\ fs[LastPath] = RegFile(Written.val)

\* C4's case: a save_* succeeded where the parent and the grandparent of the
\* path were both missing.
C4_Witness ==
    /\ last.op \in Saves \ {"save"}
    /\ last.res.ok
    /\ Len(LastPath) > 3
    /\ last.pre[Parent(LastPath)].kind = "absent"
    /\ last.pre[Parent(Parent(LastPath))].kind = "absent"

\* C5 as stated: delete on a path where nothing exists returns success; delete
\* on an existing file returns success and the file is absent afterwards.
C5_Original ==
    last.op = "delete" /\ last.fault = NoFault =>
        /\ last.pre[LastPath].kind = "absent" => last.res.ok
        /\ last.pre[LastPath].kind = "file" => last.res.ok /\ fs[LastPath] = Absent

\* C5 amended: delete on a path where nothing exists and every ancestor is a
\* directory or missing returns success and changes nothing; when an ancestor
\* of the path is a regular file delete returns the NotADirectory error;
\* delete on an existing file returns success and the file is absent
\* afterwards, and a second delete right after succeeds and leaves it absent.
C5_DeleteIdempotent ==
    last.op = "delete" /\ last.fault = NoFault =>
        /\ last.pre[LastPath].kind = "absent" /\ ChainFree(last.pre, LastPath) =>
              last.res.ok /\ fs = last.pre
        /\ ~ChainFree(last.pre, LastPath) =>
              last.res = IoErr("NotADirectory") /\ fs = last.pre
        /\ last.pre[LastPath].kind = "file" =>
              /\ last.res.ok
              /\ fs[LastPath] = Absent
              /\ Delete(fs, LastPath, NoFault) = [res |-> Ok(<<>>), fs |-> fs]

\* C5's case: a delete removed an existing file.
C5_Witness ==
    /\ last.op = "delete"
    /\ last.pre[LastPath].kind = "file"
    /\ last.res.ok
    /\ fs[LastPath] = Absent

\* The format a save_* or a parse call works in.
FormatOf(op) ==
    CASE op \in {"json", "save_json"} -> "json"
      [] op \in {"yaml", "save_yaml"} -> "yaml"
      [] op \in {"toml", "save_toml"} -> "toml"

\* C6: when saveF(v) succeeds, parseF on the same path, with the file system
\* as the save left it, succeeds and yields v; and a parseF with no fault on a
\* file that holds the encoding of v yields v.
C6_RoundTrip ==
    /\ last.op \in Saves \ {"save"} /\ last.res.ok =>
        Parse(FormatOf(last.op), fs, LastPath, NoFault) = Ok(last.arg)
    /\ last.op \in Parses /\ last.fault = NoFault =>
        \A v \in Values :
            Encode(FormatOf(last.op), v).ok
                /\ last.pre[LastPath] = RegFile(Encode(FormatOf(last.op), v).val) =>
            last.res = Ok(v)

\* C6's case: a parse returned the second record, which only a save_* of it in
\* the same format can have put there.
C6_Witness ==
    /\ last.op \in Parses
    /\ last.res = Ok(<<1, 2>>)

\* C7 as stated: read_to_string and read_to_vec on a path with no file return
\* an error of kind NotFound, never another kind, and change nothing.
C7_Original ==
    last.op \in Reads /\ last.fault = NoFault /\ last.pre[LastPath].kind = "absent" =>
        last.res = IoErr("NotFound") /\ fs = last.pre

\* C7 amended: read_to_string and read_to_vec on a path with no file return an
\* error, never success, and change nothing; its kind is NotFound when every
\* ancestor of the path is a directory or missing, and NotADirectory when an
\* ancestor is a regular file.
C7_ReadMissing ==
    last.op \in Reads /\ last.fault = NoFault /\ last.pre[LastPath].kind = "absent" =>
        /\ fs = last.pre
        /\ last.res = IoErr(IF ChainFree(last.pre, LastPath) THEN "NotFound"
                            ELSE "NotADirectory")

\* C7's case: a read found no file on a path whose parent directory exists
\* (the file was saved and deleted again).
C7_Witness ==
    /\ last.op \in Reads
    /\ last.res = IoErr("NotFound")
    /\ fs[Parent(LastPath)].kind = "dir"
    /\ Len(LastPath) > 3

\* C8: a parse returns the Io variant for every failure to open or to read
\* the file, and the Serde variant only when the content was read.
C8_IoVersusDecode ==
    last.op \in Parses /\ ~last.res.ok =>
        LET opened == Open(last.pre, LastPath, last.fault) = "ok"
            wasRead == opened /\ ReadToEnd(last.pre, LastPath, last.fault).ok
        IN  /\ ~wasRead => last.res.variant = "Io"
            /\ last.res.variant = "Serde" => wasRead

\* C9 as stated, for delete calls with no injected fault: save returns the
\* error of a failed directory creation and does not write after it, and
\* returns the error of a failed write; delete returns every removal error
\* other than NotFound, and then the entry at the path still exists.
C9_Original ==
    /\ last.op \in Saves /\ Written.ok =>
        LET made == CreateParentDir(last.pre, LastPath, last.fault)
        IN  /\ ~made.res.ok => last.res = made.res /\ fs = last.pre
            /\ made.res.ok /\ ~Write(made.fs, LastPath, Written.val, last.fault).res.ok =>
                  ~last.res.ok
    /\ last.op = "delete" /\ last.fault = NoFault =>
        LET r == RemoveFile(last.pre, LastPath, last.fault)
        IN  ~r.res.ok /\ r.res.kind # "NotFound" =>
                last.res = r.res /\ fs[LastPath].kind # "absent"

\* C9 amended: as stated, but when delete returns a removal error the file
\* system is unchanged (an entry at the path, if there was one, still exists);
\* and delete returns success exactly when the removal succeeded or failed
\* with NotFound.
C9_NothingSwallowed ==
    /\ last.op \in Saves /\ Written.ok =>
        LET made == CreateParentDir(last.pre, LastPath, last.fault)
            wrote == Write(made.fs, LastPath, Written.val, last.fault)
        IN  /\ ~made.res.ok => last.res = made.res /\ fs = last.pre
            /\ made.res.ok /\ ~wrote.res.ok => last.res = wrote.res
    /\ last.op = "delete" =>
        LET r == RemoveFile(last.pre, LastPath, last.fault)
        IN  /\ ~r.res.ok /\ r.res.kind # "NotFound" => last.res = r.res /\ fs = last.pre
            /\ last.res.ok <=> (r.res.ok \/ r.res.kind = "NotFound")

\* C9's case: delete was called on a path that is a directory and returned
\* the error.
C9_Witness ==
    /\ last.op = "delete"
    /\ last.res = IoErr("IsADirectory")
    /\ fs[LastPath].kind = "dir"

\* C10: when encoding the value fails, saveF returns the Serde variant and
\* the file system is unchanged.
C10_EncodeFirst ==
    last.op \in Saves \ {"save"} /\ ~Written.ok =>
        /\ last.res = Err("Serde", "encode")
        /\ fs = last.pre

\* C10's case: a save_* whose value does not encode was called where the
\* parent directory is missing, and it is still missing.
C10_Witness ==
    /\ last.op \in Saves \ {"save"}
    /\ last.res.variant = "Serde"
    /\ fs[Parent(LastPath)].kind = "absent"

====
